---- MODULE Spec2Model ----
(***************************************************************************)
(* Affect-tracking layer of leon-parker/affective-llm-pad-framework:       *)
(* PAD / Mood / NeuroChemistry (src/src/affectgpt/emotion.py), the memory  *)
(* system (src/src/affectgpt/memory_system.py) and the per-turn glue of    *)
(* src/ui/app.py.                                                          *)
(*                                                                         *)
(* Numbers.  The program computes with Python floats.  Here a float is a   *)
(* fixed-point number: the integer k stands for k / Scale, and a product   *)
(* is rounded to the nearest representable value, ties to even, as IEEE    *)
(* 754 does.  Sums of representable values are exact.  Near zero binary64  *)
(* is itself such a grid (the multiples of the least subnormal 2^-1074),   *)
(* so what the model shows on its grid near zero is what the program does  *)
(* on the subnormal grid.                                                  *)
(***************************************************************************)
EXTENDS Integers, Sequences, FiniteSets, TLC

VARIABLES
    decay,          \* Mood.decay
    state,          \* Mood.state
    history,        \* Mood.history
    ret,            \* the PAD value returned by the last PAD / Mood operation
    call,           \* the last operation called and its arguments
    brain,          \* st.session_state.brain
    brain_history,  \* st.session_state.brain_history
    drifted,        \* the turn handler's local `drifted`
    decayed_brain,  \* the turn handler's temporary drifted.decayed(0.9)
    nc_self,        \* the receiver of the last NeuroChemistry method call
    nc_ret,         \* the NeuroChemistry value that call returned
    stm,            \* st.session_state.stm
    ltm,            \* st.session_state.ltm
    now,            \* the clock behind datetime.utcnow()
    cfg,            \* the max_stm, max_ltm, ltm_threshold given to update_memories
    score,          \* the value returned by the last score_importance call
    ctx,            \* the text returned by the last build_memory_context call
    attachment,     \* st.session_state.attachment
    chat_input,     \* the text of the last submitted form (`user_text`)
    bot,            \* the turn handler's local `bot`, the reply of the last turn
    steps,          \* the calls the turn handler made in the last turn, in order
    reflections,    \* st.session_state.reflections
    chat_history    \* st.session_state.history

moodVars == <<decay, state, history, ret, call>>

neuroVars == <<brain, brain_history, drifted, decayed_brain>>

ncCallVars == <<nc_self, nc_ret>>

memVars == <<stm, ltm, now, cfg, score, ctx>>

turnVars == <<attachment, chat_input, bot, steps, reflections, chat_history>>

vars == <<moodVars, neuroVars, ncCallVars, memVars, turnVars>>

\* what the operations of one component leave alone
notMood == <<neuroVars, ncCallVars, memVars, turnVars>>

notNeuro == <<moodVars, ncCallVars, memVars, turnVars>>

notNCCall == <<decay, state, history, ret, neuroVars, memVars, turnVars>>

notMem == <<decay, state, history, ret, neuroVars, ncCallVars, turnVars>>

notAttachment ==
    <<decay, state, history, ret, neuroVars, ncCallVars, memVars,
      chat_input, bot, steps, reflections, chat_history>>

----------------------------------------------------------------------------
(* Floats *)

Scale == 1000

One == Scale

\* n / d rounded to the nearest integer, ties to the even one (d > 0)
RoundDiv(n, d) ==
    LET q == n \div d
        r == n % d
    IN  IF 2 * r < d THEN q
        ELSE IF 2 * r > d THEN q + 1
        ELSE IF q % 2 = 0 THEN q ELSE q + 1

\* the float product a * b
Mul(a, b) == RoundDiv(a * b, Scale)

Abs(x) == IF x < 0 THEN -x ELSE x

Max(a, b) == IF a >= b THEN a ELSE b

Min(a, b) == IF a <= b THEN a ELSE b

----------------------------------------------------------------------------
(* emotion.py: PAD *)

PAD(p, a, d) == [pleasure |-> p, arousal |-> a, dominance |-> d]

\* PAD.clipped
PADClipped(self) ==
    PAD(Max(-One, Min(One, self.pleasure)),
        Max(-One, Min(One, self.arousal)),
        Max(-One, Min(One, self.dominance)))

\* PAD.zero
PADZero == PAD(0, 0, 0)

\* PAD.scale
PADScale(self, factor) ==
    PAD(Mul(self.pleasure, factor),
        Mul(self.arousal, factor),
        Mul(self.dominance, factor))

----------------------------------------------------------------------------
(* emotion.py: Mood *)

\* the default of Mood.__init__'s decay, and the decay of the app's Mood
DefaultDecay == 850

\* the default of Mood.update's blend
DefaultBlend == 250

\* An Optional[PAD] is a sequence of at most one PAD; None is the empty one
None == <<>>

Some(x) == <<x>>

\* `baseline if baseline else PAD.zero()`: a dataclass instance is truthy
BaselineOrZero(baseline) == IF baseline = None THEN PADZero ELSE baseline[1]

\* the new Mood.state computed by Mood.update, without the clipping
MoodBlendUnclipped(st, dec, delta, blend) ==
    LET decayed == PADScale(st, dec)
    IN  PAD(decayed.pleasure + Mul(delta.pleasure, blend),
            decayed.arousal + Mul(delta.arousal, blend),
            decayed.dominance + Mul(delta.dominance, blend))

\* Mood.update with the final .clipped() left out
MoodBlendNoClip(st, dec, delta, blend) ==
    MoodBlendUnclipped(st, dec, delta, blend)

\* Mood.update adding the blended delta to self.state instead of `decayed`
MoodBlendNoDecay(st, dec, delta, blend) ==
    PADClipped(PAD(st.pleasure + Mul(delta.pleasure, blend),
                   st.arousal + Mul(delta.arousal, blend),
                   st.dominance + Mul(delta.dominance, blend)))

\* the new Mood.state computed by Mood.update
MoodBlend(st, dec, delta, blend) ==
    PADClipped(MoodBlendUnclipped(st, dec, delta, blend))

\* a call of an operation: its name, its PAD argument (if any), its number
Call(op, arg, fac) == [op |-> op, arg |-> arg, fac |-> fac]

\* the longest Mood.history the model follows
MaxHist == 6

\* the decay of tests/test_mood.py, the default, and two faster ones
Decays == {800, DefaultDecay, 500, 400}

\* baselines: none, one a few quanta from zero, one outside [-1, 1]
TinyBaseline == PAD(4, -1, 0)

WideBaseline == PAD(2 * One, -(One + One \div 2), One \div 2)

Baselines == {None, Some(TinyBaseline), Some(WideBaseline)}

\* the delta of tests/test_mood.py and two of appraisal.py's EMOTION_TO_PAD
TestDelta == PAD(800, 0, 0)

AngerDelta == PAD(-700, 600, 400)

\* (delta, blend) arguments of Mood.update
UpdateArgs ==
    { <<PADZero, 0>>, <<TestDelta, DefaultBlend>>,
      <<AngerDelta, DefaultBlend>>, <<TestDelta, One>> }

\* Mood.__init__(decay, baseline)
MoodInit(d, baseline) ==
    /\ decay = d
    /\ state = BaselineOrZero(baseline)
    /\ history = <<BaselineOrZero(baseline)>>
    /\ ret = None
    /\ call = Call("init", baseline, d)

\* Mood.update(delta, blend)
MoodUpdate(delta, blend) ==
    /\ Len(history) < MaxHist
    /\ state' = MoodBlend(state, decay, delta, blend)
    /\ history' = Append(history, state')
    /\ ret' = Some(state')
    /\ call' = Call("update", Some(delta), blend)
    /\ UNCHANGED <<decay, notMood>>

\* Mood.current()
MoodCurrent ==
    /\ ret' = Some(state)
    /\ call' = Call("current", None, 0)
    /\ UNCHANGED <<decay, state, history, notMood>>

\* Mood.reset(baseline)
MoodReset(baseline) ==
    /\ state' = BaselineOrZero(baseline)
    /\ history' = <<state'>>
    /\ ret' = None
    /\ call' = Call("reset", baseline, 0)
    /\ UNCHANGED <<decay, notMood>>

----------------------------------------------------------------------------
(* emotion.py: NeuroChemistry *)

NeuroChemistry(d, s, n) == [dopamine |-> d, serotonin |-> s, noradrenaline |-> n]

\* NeuroChemistry(): the dataclass defaults
NCNeutral == NeuroChemistry(0, 0, 0)

\* NeuroChemistry.clipped
NCClipped(self) ==
    NeuroChemistry(Max(-One, Min(One, self.dopamine)),
                   Max(-One, Min(One, self.serotonin)),
                   Max(-One, Min(One, self.noradrenaline)))

\* NeuroChemistry.to_pad
NCToPad(self) ==
    LET d == self.dopamine
        s == self.serotonin
        n == self.noradrenaline
        pleasure == Mul(500, d) + Mul(600, s) - Mul(200, n)
        arousal == Mul(400, d) - Mul(200, s) + Mul(700, n)
        dominance == Mul(300, d) - Mul(300, s) + Mul(600, n)
    IN  PADClipped(PAD(pleasure, arousal, dominance))

\* NeuroChemistry.decayed
NCDecayed(self, factor) ==
    NeuroChemistry(Mul(self.dopamine, factor),
                   Mul(self.serotonin, factor),
                   Mul(self.noradrenaline, factor))

\* the default of updated_from_pad_delta's learning_rate
DefaultLearningRate == 400

\* the d, s, n of updated_from_pad_delta before the final clipping
NCShifted(self, delta, learning_rate) ==
    LET d0 == self.dopamine
        s0 == self.serotonin
        n0 == self.noradrenaline
        d1 == IF delta.pleasure >= 0
              THEN d0 + Mul(learning_rate, delta.pleasure) ELSE d0
        s1 == IF delta.pleasure >= 0
              THEN s0 + Mul(Mul(500, learning_rate), delta.pleasure) ELSE s0
        n1 == IF delta.pleasure >= 0
              THEN n0 ELSE n0 + Mul(Mul(-400, learning_rate), delta.pleasure)
        n2 == IF delta.arousal > 0
              THEN n1 + Mul(Mul(600, learning_rate), delta.arousal) ELSE n1
        d2 == d1 + Mul(Mul(100, learning_rate), delta.dominance)
    IN  NeuroChemistry(d2, s1, n2)

\* updated_from_pad_delta returning NeuroChemistry(d, s, n) without .clipped()
NCUpdatedNoClip(self, delta, learning_rate) ==
    NCShifted(self, delta, learning_rate)

\* updated_from_pad_delta with the `if delta.arousal > 0` test left out
NCUpdatedAnyArousal(self, delta, learning_rate) ==
    LET sh == NCShifted(self, PAD(delta.pleasure, 0, delta.dominance),
                        learning_rate)
    IN  NCClipped(NeuroChemistry(
            sh.dopamine, sh.serotonin,
            sh.noradrenaline + Mul(Mul(600, learning_rate), delta.arousal)))

\* NeuroChemistry.updated_from_pad_delta
NCUpdatedFromPadDelta(self, delta, learning_rate) ==
    NCClipped(NCShifted(self, delta, learning_rate))

----------------------------------------------------------------------------
(* Python strings and lists *)

UpperCase == "ABCDEFGHIJKLMNOPQRSTUVWXYZ"

LowerCase == "abcdefghijklmnopqrstuvwxyz"

\* the character at position i of a string
CharAt(s, i) == SubSeq(s, i, i)

LowerChar(c) ==
    IF \E i \in 1..26 : CharAt(UpperCase, i) = c
    THEN CharAt(LowerCase, CHOOSE i \in 1..26 : CharAt(UpperCase, i) = c)
    ELSE c

LowerAt(s, i) == LowerChar(CharAt(s, i))

\* str.lower of positions lo..hi of s, by halves
RECURSIVE LowerRange(_, _, _)
LowerRange(s, lo, hi) ==
    IF lo > hi THEN ""
    ELSE IF lo = hi THEN LowerAt(s, lo)
    ELSE LET mid == (lo + hi) \div 2
         IN  LowerRange(s, lo, mid) \o LowerRange(s, mid + 1, hi)

\* str.lower
Lower(s) == LowerRange(s, 1, Len(s))

\* k in t
Contains(t, k) ==
    \E i \in 0..(Len(t) - Len(k)) : SubSeq(t, i + 1, i + Len(k)) = k

\* str.isspace, for one character
IsSpace(c) == c \in {" ", "\n", "\t", "\r"}

\* what " ".join(s.strip().split()) keeps of position i: a character that is
\* not whitespace, after one space if whitespace separates it from an
\* earlier word
SqueezeAt(s, i) ==
    IF IsSpace(CharAt(s, i)) THEN ""
    ELSE IF i > 1 /\ IsSpace(CharAt(s, i - 1))
            /\ \E j \in 1..(i - 1) : ~IsSpace(CharAt(s, j))
    THEN " " \o CharAt(s, i)
    ELSE CharAt(s, i)

\* " ".join(s.strip().split()) of positions lo..hi of s, by halves
RECURSIVE SqueezeRange(_, _, _)
SqueezeRange(s, lo, hi) ==
    IF lo > hi THEN ""
    ELSE IF lo = hi THEN SqueezeAt(s, lo)
    ELSE LET mid == (lo + hi) \div 2
         IN  SqueezeRange(s, lo, mid) \o SqueezeRange(s, mid + 1, hi)

\* " ".join(s.strip().split())
NormaliseSpace(s) == SqueezeRange(s, 1, Len(s))

\* str.strip
RECURSIVE Strip(_)
Strip(s) ==
    IF s = "" THEN ""
    ELSE IF IsSpace(CharAt(s, 1)) THEN Strip(SubSeq(s, 2, Len(s)))
    ELSE IF IsSpace(CharAt(s, Len(s))) THEN Strip(SubSeq(s, 1, Len(s) - 1))
    ELSE s

FlattenAt(s, i) == IF CharAt(s, i) = "\n" THEN " / " ELSE CharAt(s, i)

\* s.replace(chr(10), " / ") of positions lo..hi of s, by halves
RECURSIVE FlattenRange(_, _, _)
FlattenRange(s, lo, hi) ==
    IF lo > hi THEN ""
    ELSE IF lo = hi THEN FlattenAt(s, lo)
    ELSE LET mid == (lo + hi) \div 2
         IN  FlattenRange(s, lo, mid) \o FlattenRange(s, mid + 1, hi)

\* s.replace(chr(10), " / ")
FlattenNewlines(s) == FlattenRange(s, 1, Len(s))

\* "\n".join(parts)
RECURSIVE JoinLines(_)
JoinLines(lines) ==
    IF lines = <<>> THEN ""
    ELSE IF Len(lines) = 1 THEN lines[1]
    ELSE lines[1] \o "\n" \o JoinLines(Tail(lines))

\* seq[-n:]
LastN(seq, n) ==
    IF n > 0
    THEN SubSeq(seq, Max(1, Len(seq) - n + 1), Len(seq))
    ELSE SubSeq(seq, Min(Len(seq), -n) + 1, Len(seq))

\* seq[:n]
FirstN(seq, n) ==
    IF n >= 0
    THEN SubSeq(seq, 1, Min(n, Len(seq)))
    ELSE SubSeq(seq, 1, Max(0, Len(seq) + n))

\* sorted(seq, key=..., reverse=True) for the key named by field: stable, so
\* items with equal keys keep their order
RECURSIVE SortedDesc(_, _)
SortedDesc(seq, field) ==
    IF seq = <<>> THEN <<>>
    ELSE LET n == Len(seq)
             x == seq[n]
             rest == SortedDesc(SubSeq(seq, 1, n - 1), field)
             k == Cardinality({i \in 1..Len(rest) : rest[i][field] >= x[field]})
         IN  SubSeq(rest, 1, k) \o <<x>> \o SubSeq(rest, k + 1, Len(rest))

----------------------------------------------------------------------------
(* The texts and labels the memory system is given *)

\* texts: no marker, each marker list alone or as part of a longer word,
\* upper case, several at once
ScoreTexts ==
    { "", "ok", "Hi there", "I'M FINE", "my dog", "tell me more",
      "I like tea", "We enjoy it", "i hate mondays", "see you tomorrow",
      "explanation", "My goal: I prefer to plan", "suicide" }

\* labels: every label score_importance names, and two it does not
ScoreLabels ==
    { "sadness", "anxiety", "anger", "shame", "fear", "joy", "gratitude",
      "pride", "safety", "neutral", "" }

\* a text of two lines whose cleaned form is longer than 140 characters
LongText ==
    "Next week  I start the new job in the city and my sister will help me "
    \o "move all of the boxes,\nthe books and the old piano up to the flat on the third floor."

\* (user_text, label) of a turn: importance 0.2, 0.6, 0.65, 0.7, 0.9, 0.95
TurnInputs ==
    { <<"ok", "neutral">>, <<" Hi  all ", "sadness">>, <<LongText, "joy">>,
      <<"I love plans", "neutral">>, <<"I love plans", "sadness">>,
      <<"end it all", "safety">> }

BotText == "I see."

\* safety.py: the reply of check when CRISIS matches
CrisisMessage ==
    "I am really sorry you are going through this. You are not alone. "
    \o "If you are in immediate danger, please call your local emergency number. "
    \o "In the UK you can contact Samaritans 24/7 at 116 123 or text SHOUT to 85258."

\* policy.py: what the fallback reply of render_response begins with (its
\* apostrophe is U+2019 in the source)
FallbackPrefix == "(Fallback) I'm having trouble reaching the local model: "

\* what str(e) is for the failures of the generation call the model follows
LlmErrors == {"Connection refused"}

\* the replies a turn can end with
Replies == {BotText, CrisisMessage} \cup {FallbackPrefix \o e : e \in LlmErrors}

\* (text, VADER compound score) of the forms the model submits: a blank
\* one, anger about oneself, anger at the bot, gratitude, a crisis phrase
SubmitInputs ==
    { <<"   ", 0>>, <<"I feel so angry about this!", -500>>,
      <<"You are useless", -500>>,
      <<"Thanks, I really appreciate your help.", 500>>,
      <<"I want to end it all", -500>> }

\* the labels analyze returns, and the turn handler's "safety"
HandlerLabels ==
    {"neutral", "joy", "gratitude", "anger", "sadness", "fear", "safety"}

\* the (user_text, label) pairs update_memories is given
MemoryInputs == TurnInputs \cup ({a[1] : a \in SubmitInputs} \X HandlerLabels)

----------------------------------------------------------------------------
(* memory_system.py *)

MemoryItem(kind, text, label, importance, pad, br, timestamp) ==
    [kind |-> kind, text |-> text, label |-> label, importance |-> importance,
     pad |-> pad, brain |-> br, timestamp |-> timestamp]

\* _contains_any
ContainsAny(text, keywords) ==
    LET t == Lower(text) IN \E k \in keywords : Contains(t, k)

\* score_importance before the final clipping to [0, 1]
ScoreUnclipped(user_text, label) ==
    LET text == Lower(user_text)
        s0 == 200
        s1 == IF ContainsAny(text, {"i ", "i'm", "im ", "my ", "me ", "mine "})
              THEN s0 + 200 ELSE s0
        s2 == IF ContainsAny(text, {"i like", "i love", "i enjoy", "i hate",
                                    "i prefer"})
              THEN s1 + 200 ELSE s1
        s3 == IF ContainsAny(text, {"tomorrow", "next week", "in a year",
                                    "plan", "goal"})
              THEN s2 + 100 ELSE s2
        s4 == IF label \in {"sadness", "anxiety", "anger", "shame", "fear"}
              THEN s3 + 200 ELSE s3
        s5 == IF label \in {"joy", "gratitude", "pride"}
              THEN s4 + 150 ELSE s4
    IN  IF label = "safety" THEN 950 ELSE s5

\* score_importance with the crisis override applied before the additive rules
ScoreSafetyFirst(user_text, label) ==
    LET base == IF label = "safety" THEN 950 ELSE 0
    IN  Max(0, Min(One, base + ScoreUnclipped(user_text, "")))

\* score_importance
ScoreImportance(user_text, label) ==
    Max(0, Min(One, ScoreUnclipped(user_text, label)))

\* the one-character ellipsis U+2026 that ends a truncated summary
Ellipsis == "~"

\* summarise_interaction
SummariseInteraction(user_text, label) ==
    LET c0 == NormaliseSpace(user_text)
        cleaned == IF Len(c0) > 140 THEN SubSeq(c0, 1, 140) \o Ellipsis ELSE c0
    IN  IF label = "safety"
        THEN "The user expressed a crisis/safety concern: \"" \o cleaned \o "\""
        ELSE IF label \in {"sadness", "anxiety", "fear", "anger"}
        THEN "The user felt " \o label \o " about: \"" \o cleaned \o "\""
        ELSE IF label \in {"joy", "gratitude", "pride"}
        THEN "The user shared a positive moment (" \o label \o "): \""
             \o cleaned \o "\""
        ELSE "User said: \"" \o cleaned \o "\""

\* score_importance(user_text, label) for the pairs above, computed once
ImportanceTable ==
    { <<a, ScoreImportance(a[1], a[2])>> :
        a \in (ScoreTexts \X ScoreLabels) \cup MemoryInputs }

Importance(user_text, label) ==
    (CHOOSE e \in ImportanceTable : e[1] = <<user_text, label>>)[2]

\* summarise_interaction(user_text, label) for the turns above, computed once
SummaryTable ==
    { <<a, SummariseInteraction(a[1], a[2])>> : a \in MemoryInputs }

Summary(user_text, label) ==
    (CHOOSE e \in SummaryTable : e[1] = <<user_text, label>>)[2]

\* the text of the short-term record of a turn
StmText(user_text, bot_text) == "User: " \o user_text \o "\nBot: " \o bot_text

\* the short-term texts of the turns above with their line breaks replaced,
\* computed once
FlattenedTable ==
    { <<StmText(a[1], b), FlattenNewlines(StmText(a[1], b))>> :
        a \in MemoryInputs, b \in Replies }

Flattened(text) ==
    IF \E e \in FlattenedTable : e[1] = text
    THEN (CHOOSE e \in FlattenedTable : e[1] = text)[2]
    ELSE FlattenNewlines(text)

\* new_stm when the newest records are the ones dropped
NewStmKeepOldest(old_stm, stm_item, max_stm) ==
    LET new_stm == Append(old_stm, stm_item)
    IN  IF Len(new_stm) > max_stm THEN FirstN(new_stm, max_stm) ELSE new_stm

\* new_stm of update_memories
NewStm(old_stm, stm_item, max_stm) ==
    LET new_stm == Append(old_stm, stm_item)
    IN  IF Len(new_stm) > max_stm THEN LastN(new_stm, max_stm) ELSE new_stm

\* new_ltm without the importance threshold
NewLtmNoThreshold(old_ltm, ltm_item, max_ltm, ltm_threshold) ==
    FirstN(SortedDesc(Append(old_ltm, ltm_item), "importance"), max_ltm)

\* new_ltm without the sort by importance
NewLtmNoSort(old_ltm, ltm_item, max_ltm, ltm_threshold) ==
    IF ltm_item.importance >= ltm_threshold
    THEN FirstN(Append(old_ltm, ltm_item), max_ltm)
    ELSE old_ltm

\* new_ltm when the new record goes before the stored records it ties with
NewLtmNewestFirst(old_ltm, ltm_item, max_ltm, ltm_threshold) ==
    IF ltm_item.importance >= ltm_threshold
    THEN FirstN(SortedDesc(<<ltm_item>> \o old_ltm, "importance"), max_ltm)
    ELSE old_ltm

\* new_ltm when a full list gives up its oldest record, whatever its importance
NewLtmKeepNewest(old_ltm, ltm_item, max_ltm, ltm_threshold) ==
    IF ltm_item.importance >= ltm_threshold
    THEN LET appended == Append(old_ltm, ltm_item)
         IN  SubSeq(appended, Max(1, Len(appended) - max_ltm + 1),
                    Len(appended))
    ELSE old_ltm

\* new_ltm of update_memories
NewLtm(old_ltm, ltm_item, max_ltm, ltm_threshold) ==
    IF ltm_item.importance >= ltm_threshold
    THEN FirstN(SortedDesc(Append(old_ltm, ltm_item), "importance"), max_ltm)
    ELSE old_ltm

LtmHeader == "Important things the user has shared before:"

StmHeader == "Recent conversation snippets:"

\* the `parts` of build_memory_context without the sort by timestamp
ContextPartsNoSort(s, l, max_stm, max_ltm) ==
    LET chosen == FirstN(l, max_ltm)
        recent == LastN(s, max_stm)
        parts1 == IF l # <<>>
                  THEN <<LtmHeader>>
                       \o [i \in 1..Len(chosen) |-> "- " \o chosen[i].text]
                  ELSE <<>>
        parts2 == IF s # <<>>
                  THEN <<"", StmHeader>>
                       \o [i \in 1..Len(recent) |->
                              "- " \o Flattened(recent[i].text)]
                  ELSE <<>>
    IN  parts1 \o parts2

\* the `parts` of build_memory_context
ContextParts(s, l, max_stm, max_ltm) ==
    LET chosen == FirstN(SortedDesc(l, "timestamp"), max_ltm)
        recent == LastN(s, max_stm)
        parts1 == IF l # <<>>
                  THEN <<LtmHeader>>
                       \o [i \in 1..Len(chosen) |-> "- " \o chosen[i].text]
                  ELSE <<>>
        parts2 == IF s # <<>>
                  THEN <<"", StmHeader>>
                       \o [i \in 1..Len(recent) |->
                              "- " \o Flattened(recent[i].text)]
                  ELSE <<>>
    IN  parts1 \o parts2

\* build_memory_context
BuildMemoryContext(s, l, max_stm, max_ltm) ==
    Strip(JoinLines(ContextParts(s, l, max_stm, max_ltm)))

----------------------------------------------------------------------------
(* ui/app.py: update_attachment *)

\* signals.get("compound", 0.0)
Compound(signals) ==
    IF "compound" \in DOMAIN signals THEN signals.compound ELSE 0

\* delta_att of update_attachment when anger counts whatever its target
AttachmentDeltaAnyTarget(label, target, signals) ==
    LET comp == Compound(signals)
        d1 == IF label \in {"gratitude", "joy"} /\ target # "bot" /\ comp > 200
              THEN 40 ELSE 0
        d2 == IF label \in {"sadness", "fear"} /\ target = "self"
              THEN d1 + 20 ELSE d1
        d3 == IF label = "anger" THEN d2 - 50 ELSE d2
    IN  IF label = "safety" THEN d3 + 10 ELSE d3

\* delta_att of update_attachment
AttachmentDelta(label, target, signals) ==
    LET comp == Compound(signals)
        d1 == IF label \in {"gratitude", "joy"} /\ target # "bot" /\ comp > 200
              THEN 40 ELSE 0
        d2 == IF label \in {"sadness", "fear"} /\ target = "self"
              THEN d1 + 20 ELSE d1
        d3 == IF label = "anger" /\ target = "bot" THEN d2 - 50 ELSE d2
    IN  IF label = "safety" THEN d3 + 10 ELSE d3

\* update_attachment without the final clipping
UpdateAttachmentNoClip(att, label, target, signals) ==
    att + AttachmentDelta(label, target, signals)

\* update_attachment
UpdateAttachment(att, label, target, signals) ==
    Max(0, Min(One, att + AttachmentDelta(label, target, signals)))

----------------------------------------------------------------------------
(* Initial values of the variables a specification does not use *)

\* the attachment a session starts with
InitialAttachment == 300

TurnIdle ==
    /\ attachment = InitialAttachment
    /\ chat_input = ""
    /\ bot = ""
    /\ steps = <<>>
    /\ reflections = <<>>
    /\ chat_history = <<>>

MoodIdle == MoodInit(DefaultDecay, None)

NeuroIdle ==
    /\ brain = NCNeutral
    /\ brain_history = <<NCNeutral>>
    /\ drifted = NCNeutral
    /\ decayed_brain = NCNeutral

NCCallIdle ==
    /\ nc_self = NCNeutral
    /\ nc_ret = NCNeutral

\* update_memories' defaults of max_stm, max_ltm, ltm_threshold
DefaultMaxStm == 20

DefaultMaxLtm == 12

DefaultLtmThreshold == 600

MemConfig(max_stm, max_ltm, ltm_threshold) ==
    [max_stm |-> max_stm, max_ltm |-> max_ltm, ltm_threshold |-> ltm_threshold]

MemEmpty ==
    /\ stm = <<>>
    /\ ltm = <<>>
    /\ now = 0
    /\ score = 0
    /\ ctx = ""

MemIdle ==
    /\ MemEmpty
    /\ cfg = MemConfig(DefaultMaxStm, DefaultMaxLtm, DefaultLtmThreshold)

----------------------------------------------------------------------------
(* Mood on its own: construction, update, current, reset *)

InitMood ==
    /\ \E d \in Decays, b \in Baselines : MoodInit(d, b)
    /\ NeuroIdle
    /\ NCCallIdle
    /\ MemIdle
    /\ TurnIdle

NextMood ==
    \/ \E a \in UpdateArgs : MoodUpdate(a[1], a[2])
    \/ MoodCurrent
    \/ \E b \in Baselines : MoodReset(b)

SpecMood == InitMood /\ [][NextMood]_vars

----------------------------------------------------------------------------
(* Every operation that produces a PAD: the Mood of the app (decay 0.85)   *)
(* and direct calls of PAD.clipped, PAD.scale, PAD.zero and to_pad         *)

\* receivers of PAD.clipped and PAD.scale: in range, at the edge, outside
PadArgs == {PAD(300, -300, 0), PAD(One, -One, One), WideBaseline}

\* factors of PAD.scale: the app's decay, a sign flip, a doubling
Factors == {DefaultDecay, -One, 2 * One}

\* receivers of NeuroChemistry.to_pad
NCArgs ==
    { NCNeutral, NeuroChemistry(One, One, -One),
      NeuroChemistry(-One, 300, One), NeuroChemistry(3 * One, 0, 0) }

\* p.clipped()
PadClippedCall(p) ==
    /\ ret' = Some(PADClipped(p))
    /\ call' = Call("clipped", Some(p), 0)
    /\ UNCHANGED <<decay, state, history, notMood>>

\* p.scale(factor)
PadScaleCall(p, factor) ==
    /\ ret' = Some(PADScale(p, factor))
    /\ call' = Call("scale", Some(p), factor)
    /\ UNCHANGED <<decay, state, history, notMood>>

\* PAD.zero()
PadZeroCall ==
    /\ ret' = Some(PADZero)
    /\ call' = Call("zero", None, 0)
    /\ UNCHANGED <<decay, state, history, notMood>>

\* nc.to_pad()
NCToPadCall(nc) ==
    /\ ret' = Some(NCToPad(nc))
    /\ call' = Call("to_pad", Some(nc), 0)
    /\ UNCHANGED <<decay, state, history, notMood>>

InitPAD ==
    /\ \E b \in Baselines : MoodInit(DefaultDecay, b)
    /\ NeuroIdle
    /\ NCCallIdle
    /\ MemIdle
    /\ TurnIdle

NextPAD ==
    \/ \E a \in UpdateArgs : MoodUpdate(a[1], a[2])
    \/ MoodCurrent
    \/ \E b \in Baselines : MoodReset(b)
    \/ \E p \in PadArgs : PadClippedCall(p)
    \/ \E p \in PadArgs, f \in Factors : PadScaleCall(p, f)
    \/ PadZeroCall
    \/ \E nc \in NCArgs : NCToPadCall(nc)

SpecPAD == InitPAD /\ [][NextPAD]_vars

----------------------------------------------------------------------------
(* app.py: the neuro-state across turns *)

\* the longest brain_history the model follows
MaxBrainHist == 6

\* alpha, the drift strength toward the persona baseline
Alpha == 100

\* the factor of the turn's decayed(0.9)
TurnDecay == 900

\* PERSONALITIES[...]["neuro_bias"]
CalmTherapist == NeuroChemistry(100, 300, -200)

SupportiveFriend == NeuroChemistry(200, 100, 0)

AnalyticalScientist == NeuroChemistry(0, 0, 0)

NeuroBiases == {CalmTherapist, SupportiveFriend, AnalyticalScientist}

\* appraisal.py: EMOTION_TO_PAD
EmotionToPad(label) ==
    CASE label = "joy" -> PAD(800, 200, 200)
      [] label = "gratitude" -> PAD(600, 100, 200)
      [] label = "anger" -> PAD(-700, 600, 400)
      [] label = "sadness" -> PAD(-700, -400, -400)
      [] label = "fear" -> PAD(-800, 500, -600)
      [] label = "neutral" -> PAD(0, 0, 0)

\* the labels whose deltas the model feeds to the neuro-state
TurnLabels == {"joy", "anger", "sadness"}

\* a drift with the two weights exchanged: b * alpha + target_brain * (1 - alpha)
DriftSwapped(b, target_brain) ==
    NeuroChemistry(
        Mul(b.dopamine, Alpha) + Mul(target_brain.dopamine, One - Alpha),
        Mul(b.serotonin, Alpha) + Mul(target_brain.serotonin, One - Alpha),
        Mul(b.noradrenaline, Alpha) + Mul(target_brain.noradrenaline, One - Alpha))

\* the handler's `drifted`: b * (1 - alpha) + target_brain * alpha
Drift(b, target_brain) ==
    NeuroChemistry(
        Mul(b.dopamine, One - Alpha) + Mul(target_brain.dopamine, Alpha),
        Mul(b.serotonin, One - Alpha) + Mul(target_brain.serotonin, Alpha),
        Mul(b.noradrenaline, One - Alpha) + Mul(target_brain.noradrenaline, Alpha))

\* the neuro-state block of a turn: drift, decayed(0.9), updated_from_pad_delta
NeuroTurn(nb, delta) ==
    /\ Len(brain_history) < MaxBrainHist
    /\ drifted' = Drift(brain, nb)
    /\ decayed_brain' = NCDecayed(drifted', TurnDecay)
    /\ brain' = NCUpdatedFromPadDelta(decayed_brain', delta, DefaultLearningRate)
    /\ brain_history' = Append(brain_history, brain')
    /\ UNCHANGED notNeuro

\* the "Reset mood" button, as far as the neuro-state goes
NeuroReset ==
    /\ brain' = NCNeutral
    /\ brain_history' = <<brain'>>
    /\ drifted' = NCNeutral
    /\ decayed_brain' = NCNeutral
    /\ UNCHANGED notNeuro

InitNeuro ==
    /\ MoodIdle
    /\ NeuroIdle
    /\ NCCallIdle
    /\ MemIdle
    /\ TurnIdle

NextNeuro ==
    \/ \E nb \in NeuroBiases, l \in TurnLabels :
            NeuroTurn(nb, EmotionToPad(l))
    \/ NeuroReset

SpecNeuro == InitNeuro /\ [][NextNeuro]_vars

----------------------------------------------------------------------------
(* NeuroChemistry.updated_from_pad_delta as a function of its arguments *)

\* the values a component of a receiver takes
Levels == {-One, 0, One}

\* receivers: every in-range corner, edge and centre
NCReceivers ==
    { NeuroChemistry(d, s, n) : d \in Levels, s \in Levels, n \in Levels }

\* deltas: each component negative, zero or positive
FnDeltas ==
    { PAD(p, a, d) : p \in {-800, 0, 800}, a \in {-400, 0, 600},
                     d \in {-600, 0, 400} }

\* learning rates: the default and 1.0
LearningRates == {DefaultLearningRate, One}

\* self.updated_from_pad_delta(delta, learning_rate)
NCUpdatedCall(delta, learning_rate) ==
    /\ nc_ret' = NCUpdatedFromPadDelta(nc_self, delta, learning_rate)
    /\ call' = Call("updated_from_pad_delta", Some(delta), learning_rate)
    /\ UNCHANGED <<nc_self, notNCCall>>

InitNeuroFn ==
    /\ MoodIdle
    /\ NeuroIdle
    /\ nc_self \in NCReceivers
    /\ nc_ret = NCNeutral
    /\ MemIdle
    /\ TurnIdle

NextNeuroFn ==
    \E delta \in FnDeltas, lr \in LearningRates : NCUpdatedCall(delta, lr)

SpecNeuroFn == InitNeuroFn /\ [][NextNeuroFn]_vars

----------------------------------------------------------------------------
(* score_importance as a function of its arguments *)

\* score_importance(user_text, label)
ScoreCall(user_text, label) ==
    /\ score' = Importance(user_text, label)
    /\ call' = Call("score_importance", <<user_text, label>>, 0)
    /\ UNCHANGED <<stm, ltm, now, cfg, ctx, notMem>>

InitScore ==
    /\ MoodIdle
    /\ NeuroIdle
    /\ NCCallIdle
    /\ MemIdle
    /\ TurnIdle

NextScore ==
    \E t \in ScoreTexts, l \in ScoreLabels : ScoreCall(t, l)

SpecScore == InitScore /\ [][NextScore]_vars

----------------------------------------------------------------------------
(* update_memories over the turns of a session *)

\* the most update_memories calls the model follows
MaxTurns == 4

\* the largest cap the model configures
MaxCap == 2

\* ltm_threshold: the default, and one only the highest scores reach
Thresholds == {DefaultLtmThreshold, 900}

\* update_memories(stm, ltm, user_text=, bot_text=, label=, pad=, brain=,
\*                 max_stm=, max_ltm=, ltm_threshold=), its result stored back
UpdateMemories(user_text, bot_text, label, pad, br) ==
    /\ now < MaxTurns
    /\ LET importance == Importance(user_text, label)
           t == now + 1
           stm_item == MemoryItem("stm", StmText(user_text, bot_text),
                                  label, importance, pad, br, t)
           ltm_item == MemoryItem("ltm", Summary(user_text, label),
                                  label, importance, pad, br, t)
       IN  /\ now' = t
           /\ score' = importance
           /\ stm' = NewStm(stm, stm_item, cfg.max_stm)
           /\ ltm' = NewLtm(ltm, ltm_item, cfg.max_ltm, cfg.ltm_threshold)
    /\ call' = Call("update_memories", <<user_text, label>>, 0)
    /\ UNCHANGED <<cfg, ctx, notMem>>

\* the "Clear chat" / "Reset mood" buttons, as far as the memories go
MemClear ==
    /\ stm' = <<>>
    /\ ltm' = <<>>
    /\ call' = Call("clear", <<>>, 0)
    /\ UNCHANGED <<now, cfg, score, ctx, notMem>>

InitMem ==
    /\ MoodIdle
    /\ NeuroIdle
    /\ NCCallIdle
    /\ MemEmpty
    /\ TurnIdle
    /\ \E ms \in 0..MaxCap, ml \in 0..MaxCap, th \in Thresholds :
          cfg = MemConfig(ms, ml, th)

NextMem ==
    \/ \E a \in TurnInputs :
          UpdateMemories(a[1], BotText, a[2], state, brain)
    \/ MemClear

SpecMem == InitMem /\ [][NextMem]_vars

----------------------------------------------------------------------------
(* build_memory_context over the memories of a session *)

\* max_stm, max_ltm of build_memory_context: 0, 1 and the app's 4 and 6
CtxArgs == { <<0, 0>>, <<1, 1>>, <<4, 6>> }

\* build_memory_context(stm, ltm, max_stm=, max_ltm=)
BuildContext(max_stm, max_ltm) ==
    /\ ctx' = BuildMemoryContext(stm, ltm, max_stm, max_ltm)
    /\ call' = Call("build_memory_context", <<max_stm, max_ltm>>, 0)
    /\ UNCHANGED <<stm, ltm, now, cfg, score, notMem>>

InitCtx ==
    /\ MoodIdle
    /\ NeuroIdle
    /\ NCCallIdle
    /\ MemEmpty
    /\ TurnIdle
    /\ cfg = MemConfig(MaxCap, MaxCap, DefaultLtmThreshold)

NextCtx ==
    \/ \E a \in TurnInputs :
          UpdateMemories(a[1], BotText, a[2], state, brain)
    \/ MemClear
    \/ \E a \in CtxArgs : BuildContext(a[1], a[2])

SpecCtx == InitCtx /\ [][NextCtx]_vars

----------------------------------------------------------------------------
(* appraisal.py and safety.py *)

Digits == "0123456789"

\* whether the regular expression class \w holds the (lower-case) character c
IsWordChar(c) ==
    \/ \E i \in 1..26 : CharAt(LowerCase, i) = c
    \/ \E i \in 1..10 : CharAt(Digits, i) = c
    \/ c = "_"

\* whether w lies at positions i .. i + Len(w) - 1 of t between two \b
WordAt(t, w, i) ==
    /\ i >= 1
    /\ i + Len(w) - 1 <= Len(t)
    /\ SubSeq(t, i, i + Len(w) - 1) = w
    /\ i = 1 \/ ~IsWordChar(CharAt(t, i - 1))
    /\ i + Len(w) - 1 = Len(t) \/ ~IsWordChar(CharAt(t, i + Len(w)))

\* re.search(r"\bw\b", t) for a lower-case t and a w that begins and ends
\* with a word character
HasWord(t, w) == \E i \in 1..Len(t) : WordAt(t, w, i)

\* re.search(r"\bself\s*harm\b", t) for a lower-case t
HasSelfHarm(t) ==
    \E i \in 1..Len(t), j \in 1..Len(t) :
        /\ i + 4 <= j
        /\ j + 3 <= Len(t)
        /\ SubSeq(t, i, i + 3) = "self"
        /\ i = 1 \/ ~IsWordChar(CharAt(t, i - 1))
        /\ \A k \in (i + 4)..(j - 1) : IsSpace(CharAt(t, k))
        /\ SubSeq(t, j, j + 3) = "harm"
        /\ j + 3 = Len(t) \/ ~IsWordChar(CharAt(t, j + 4))

\* safety.py: check
SafetyCheck(text) ==
    LET t == Lower(text)
    IN  IF \/ HasSelfHarm(t)
           \/ \E w \in {"suicide", "kill myself", "end it all", "overdose"} :
                 HasWord(t, w)
        THEN Some(CrisisMessage)
        ELSE None

\* appraisal.py: RULES
RULES ==
    << [words |-> {"thanks", "appreciate", "grateful"}, label |-> "gratitude"],
       [words |-> {"angry", "furious", "pissed"}, label |-> "anger"],
       [words |-> {"sad", "upset", "depressed"}, label |-> "sadness"],
       [words |-> {"scared", "afraid", "panic", "anxious"}, label |-> "fear"],
       [words |-> {"happy", "great", "awesome", "love it"}, label |-> "joy"] >>

\* rx.search(t) for the rx of a rule
RuleMatches(rule, t) == \E w \in rule.words : HasWord(Lower(t), w)

\* the label of the first rule of RULES that matches t, if any
FirstRuleLabel(t) ==
    LET m == {i \in 1..Len(RULES) : RuleMatches(RULES[i], t)}
    IN  IF m = {} THEN None
        ELSE Some(RULES[CHOOSE i \in m : \A k \in m : i <= k].label)

\* has_first and has_second of detect_target
HasFirst(t) ==
    \E w \in {"i", "me", "my", "mine", "i'm", "i am", "i feel"} : HasWord(t, w)

HasSecond(t) == \E w \in {"you", "you're", "you are"} : HasWord(t, w)

\* texts: empty and blank, the two of tests/test_appraisal.py, two rules at
\* once, no keyword with "you", with "I" and with neither, upper case,
\* keywords inside longer words, a two-word keyword, a crisis phrase
AnalyzeTexts ==
    { "", "   ", "I feel so angry about this!",
      "Thanks, I really appreciate your help.", " so sad and angry ",
      "Thanks but I am furious", "You are useless", "I failed again",
      "the sky is grey", "HAPPY days", "unhappy sadly",
      "I love it when you help me", "I'm scared", "I want to end it all" }

\* compound scores of VADER: around the -0.4, -0.3, 0 and 0.4 the code tests
Compounds == {-500, -400, -300, -100, 0, 100, 400, 500}

\* the value a table of pairs gives for a key
Lookup(table, key) == (CHOOSE e \in table : e[1] = key)[2]

\* text.strip() for the texts above, computed once
StrippedTable == {<<x, Strip(x)>> : x \in AnalyzeTexts}

\* the label of the first matching rule for the stripped texts, computed once
RuleTable == {<<e[2], FirstRuleLabel(e[2])>> : e \in StrippedTable}

\* has_first and has_second for the stripped texts, computed once
PronounTable ==
    {<<e[2], <<HasFirst(Lower(e[2])), HasSecond(Lower(e[2]))>> >> :
        e \in StrippedTable}

\* safety.check for the texts above, computed once
CrisisTable == {<<x, SafetyCheck(x)>> : x \in AnalyzeTexts}

\* appraisal.py: detect_target
DetectTarget(text, compound) ==
    LET has_first == Lookup(PronounTable, text)[1]
        has_second == Lookup(PronounTable, text)[2]
    IN  IF compound > -300 THEN "other_or_mixed"
        ELSE IF has_second /\ ~has_first THEN "bot"
        ELSE IF has_first /\ ~has_second THEN "self"
        ELSE "other_or_mixed"

\* the label of analyze when no rule matches
FallbackLabel(comp, target) ==
    IF comp >= 400 THEN "joy"
    ELSE IF comp <= -400
    THEN (IF target = "self" THEN "sadness"
          ELSE IF target = "bot" THEN "anger" ELSE "sadness")
    ELSE IF comp < 0
    THEN (IF target = "self" THEN "sadness"
          ELSE IF target = "bot" THEN "anger" ELSE "sadness")
    ELSE IF comp > 0 THEN "joy"
    ELSE "neutral"

\* analyze with the rules tried in reverse order
AnalyzeLastRule(text, comp) ==
    LET t == Lookup(StrippedTable, text)
        m == {i \in 1..Len(RULES) : RuleMatches(RULES[i], t)}
        target == DetectTarget(t, comp)
        scores == [compound |-> comp, target |-> target]
    IN  IF t = ""
        THEN <<"neutral", EmotionToPad("neutral"),
               [compound |-> 0, target |-> "other_or_mixed"]>>
        ELSE IF m # {}
        THEN LET label == RULES[CHOOSE i \in m : \A k \in m : i >= k].label
             IN  <<label, EmotionToPad(label),
                   [compound |-> comp, target |-> target, kw |-> label]>>
        ELSE LET label == FallbackLabel(comp, target)
             IN  <<label, EmotionToPad(label), scores>>

\* appraisal.py: analyze; comp is the compound score VADER gives for the
\* stripped text, and signals keeps of VADER's scores the compound only
Analyze(text, comp) ==
    LET t == Lookup(StrippedTable, text)
        kw == Lookup(RuleTable, t)
        target == DetectTarget(t, comp)
        scores == [compound |-> comp, target |-> target]
    IN  IF t = ""
        THEN <<"neutral", EmotionToPad("neutral"),
               [compound |-> 0, target |-> "other_or_mixed"]>>
        ELSE IF kw # None
        THEN <<kw[1], EmotionToPad(kw[1]),
               [compound |-> comp, target |-> target, kw |-> kw[1]]>>
        ELSE LET label == FallbackLabel(comp, target)
             IN  <<label, EmotionToPad(label), scores>>

----------------------------------------------------------------------------
(* analyze as a function of its arguments *)

\* analyze(text)
AnalyzeCall(text, comp) ==
    /\ ret' = Some(Analyze(text, comp))
    /\ call' = Call("analyze", <<text, comp>>, 0)
    /\ UNCHANGED <<decay, state, history, notMood>>

InitAnalyze ==
    /\ MoodIdle
    /\ NeuroIdle
    /\ NCCallIdle
    /\ MemIdle
    /\ TurnIdle

NextAnalyze ==
    \E text \in AnalyzeTexts, comp \in Compounds : AnalyzeCall(text, comp)

SpecAnalyze == InitAnalyze /\ [][NextAnalyze]_vars

----------------------------------------------------------------------------
(* update_attachment as a function of its arguments *)

\* attachment values a call starts from: the ends of [0, 1], values within
\* one delta of them, and the app's initial value
AttachStarts == {0, 10, InitialAttachment, 970, One}

\* labels: every label update_attachment names, and one it does not
AttachLabels ==
    {"gratitude", "joy", "sadness", "fear", "anger", "safety", "neutral"}

Targets == {"self", "bot", "other_or_mixed"}

\* signals: compound at and just above the 0.2 of the first rule, and a dict
\* without a compound entry
AttachSignals == {[compound |-> 200], [compound |-> 210], [neg |-> 0]}

\* update_attachment(attachment, label, target, signals), its result stored
\* back as the app does
UpdateAttachmentCall(label, target, signals) ==
    /\ attachment' = UpdateAttachment(attachment, label, target, signals)
    /\ call' = Call("update_attachment", <<attachment, label, target, signals>>, 0)
    /\ UNCHANGED notAttachment

InitAttach ==
    /\ MoodIdle
    /\ NeuroIdle
    /\ NCCallIdle
    /\ MemIdle
    /\ chat_input = ""
    /\ bot = ""
    /\ steps = <<>>
    /\ reflections = <<>>
    /\ chat_history = <<>>
    /\ attachment \in AttachStarts

NextAttach ==
    \E l \in AttachLabels, t \in Targets, sg \in AttachSignals :
        UpdateAttachmentCall(l, t, sg)

SpecAttach == InitAttach /\ [][NextAttach]_vars

----------------------------------------------------------------------------
(* ui/app.py: the handler of a submitted form, and the two buttons *)

\* the sidebar's defaults: "Neuro influence", "Persona weight", and the
\* pad_bias and style of the first persona, "Calm therapist"
NeuroWeight == 400

PersonaWeight == 500

CalmPadBias == PAD(200, -200, 100)

CalmStyle == [formality |-> 700, directness |-> 500, emoji |-> 200]

Clamp(x) == Max(0, Min(One, x))

\* style.py: style_from_pad
StyleFromPad(pad) ==
    [warmth |-> Clamp(500 + Mul(400, pad.pleasure) - Mul(200, pad.dominance)),
     formality |-> Clamp(500 + Mul(300, pad.dominance) - Mul(200, pad.arousal)),
     hedging |-> Clamp(600 - Mul(400, pad.dominance)
                       + Mul(100, One - Abs(pad.pleasure))),
     emoji |-> Clamp(300 + Mul(500, pad.pleasure)),
     pace |-> Clamp(500 + Mul(400, pad.arousal))]

\* mixed_pad_turn
MixedPad(pad_true, brain_pad, neuro_weight) ==
    PADClipped(PAD(
        Mul(One - neuro_weight, pad_true.pleasure)
            + Mul(neuro_weight, brain_pad.pleasure),
        Mul(One - neuro_weight, pad_true.arousal)
            + Mul(neuro_weight, brain_pad.arousal),
        Mul(One - neuro_weight, pad_true.dominance)
            + Mul(neuro_weight, brain_pad.dominance)))

\* biased_pad_turn
BiasedPad(mixed, pad_bias, persona_weight) ==
    PADClipped(PAD(mixed.pleasure + Mul(pad_bias.pleasure, persona_weight),
                   mixed.arousal + Mul(pad_bias.arousal, persona_weight),
                   mixed.dominance + Mul(pad_bias.dominance, persona_weight)))

\* the handler's `style` after the overrides and the anger-at-bot change
TurnStyle(biased, overrides, aro_bias, anger_at_bot) ==
    LET st == StyleFromPad(biased)
        hedging == One - overrides.directness
    IN  [warmth |-> st.warmth,
         formality |-> overrides.formality,
         hedging |-> IF anger_at_bot THEN Max(0, hedging - 200) ELSE hedging,
         emoji |-> IF anger_at_bot THEN Max(0, overrides.emoji - 200)
                   ELSE overrides.emoji,
         pace |-> Clamp(Mul(500, st.pace) + Mul(500, 500 + aro_bias))]

\* what the generation call does: it returns a text, or it raises
LlmOutcomes ==
    {[ok |-> TRUE, text |-> BotText]}
        \cup {[ok |-> FALSE, error |-> e] : e \in LlmErrors}

\* policy.py: render_response with a fallback that leaves the error out
RenderResponseNoDetail(augmented_user_text, outcome) ==
    IF outcome.ok THEN outcome.text ELSE "(Fallback)"

\* policy.py: render_response; outcome is what chat_llm does when called
RenderResponse(augmented_user_text, outcome) ==
    IF outcome.ok THEN outcome.text ELSE FallbackPrefix \o outcome.error

\* augmented_user_text
Augmented(memory_context, text) ==
    IF memory_context # ""
    THEN memory_context \o "\n\nCurrent message from the user:\n" \o text
    ELSE text

\* what generate_reflection is given of the turn (its text is not modelled)
Reflection(label, target, att) ==
    [label |-> label, target |-> target, attachment |-> att]

\* the most turns of a session the model follows
MaxSubmits == 3

\* a call of the handler, as `steps` records it
Step(op, arg) == [op |-> op, arg |-> arg]

\* the form is submitted with `text`; comp is VADER's compound score for it
\* and outcome what the generation call does if it is made
Submit(text, comp, outcome) ==
    /\ chat_input' = text
    /\ call' = Call("submit", <<text, comp, outcome>>, 0)
    /\ IF Lookup(StrippedTable, text) = ""
       THEN /\ steps' = <<>>
            /\ UNCHANGED <<decay, state, history, ret, neuroVars, ncCallVars,
                           memVars, attachment, bot, reflections, chat_history>>
       ELSE /\ now < MaxSubmits
            /\ LET crisis == Lookup(CrisisTable, text)
                   analysis == Analyze(text, comp)
                   label == analysis[1]
                   delta == analysis[2]
                   signals == analysis[3]
                   target == IF "target" \in DOMAIN signals
                             THEN signals.target ELSE "other_or_mixed"
                   new_att == UpdateAttachment(attachment, label, target, signals)
                   new_pad_true == MoodBlend(state, decay, delta, DefaultBlend)
                   new_drifted == Drift(brain, CalmTherapist)
                   new_decayed == NCDecayed(new_drifted, TurnDecay)
                   new_brain == NCUpdatedFromPadDelta(new_decayed, delta,
                                                      DefaultLearningRate)
                   biased_pad_turn ==
                       BiasedPad(MixedPad(new_pad_true, NCToPad(new_brain),
                                          NeuroWeight),
                                 CalmPadBias, PersonaWeight)
                   anger_at_bot == target = "bot" /\ label = "anger"
                   style == TurnStyle(biased_pad_turn, CalmStyle,
                                      CalmPadBias.arousal, anger_at_bot)
                   memory_context == BuildMemoryContext(stm, ltm, 4, 6)
                   augmented_user_text == Augmented(memory_context, text)
                   reply == IF crisis # None THEN crisis[1]
                            ELSE RenderResponse(augmented_user_text, outcome)
                   label_for_log == IF crisis # None THEN "safety" ELSE label
                   importance == Importance(text, label_for_log)
                   t == now + 1
                   stm_item == MemoryItem("stm", StmText(text, reply),
                                          label_for_log, importance,
                                          new_pad_true, new_brain, t)
                   ltm_item == MemoryItem("ltm", Summary(text, label_for_log),
                                          label_for_log, importance,
                                          new_pad_true, new_brain, t)
               IN  /\ attachment' = new_att
                   /\ state' = new_pad_true
                   /\ history' = Append(history, new_pad_true)
                   /\ ret' = Some(new_pad_true)
                   /\ drifted' = new_drifted
                   /\ decayed_brain' = new_decayed
                   /\ brain' = new_brain
                   /\ brain_history' = Append(brain_history, new_brain)
                   /\ ctx' = memory_context
                   /\ bot' = reply
                   /\ now' = t
                   /\ score' = importance
                   /\ stm' = NewStm(stm, stm_item, cfg.max_stm)
                   /\ ltm' = NewLtm(ltm, ltm_item, cfg.max_ltm, cfg.ltm_threshold)
                   /\ reflections' =
                          Append(reflections,
                                 Reflection(label_for_log, target, new_att))
                   /\ chat_history' =
                          Append(chat_history, <<text, reply, label_for_log>>)
                   /\ steps' =
                          <<Step("safety_check", text),
                            Step("analyze", text),
                            Step("update_attachment", <<label, target>>),
                            Step("mood.update", delta),
                            Step("updated_from_pad_delta", delta),
                            Step("style_from_pad", style),
                            Step("build_memory_context", <<4, 6>>)>>
                          \o (IF crisis # None THEN <<>>
                              ELSE <<Step("render_response", augmented_user_text),
                                     Step("chat_llm", outcome.ok)>>)
                          \o <<Step("update_memories", <<reply, label_for_log>>),
                               Step("generate_reflection", label_for_log)>>
            /\ UNCHANGED <<decay, ncCallVars, cfg>>

\* the "Reset mood" button
ResetMoodButton ==
    /\ decay' = DefaultDecay
    /\ state' = PADZero
    /\ history' = <<PADZero>>
    /\ brain' = NCNeutral
    /\ brain_history' = <<NCNeutral>>
    /\ stm' = <<>>
    /\ ltm' = <<>>
    /\ reflections' = <<>>
    /\ attachment' = InitialAttachment
    /\ call' = Call("reset_mood", <<>>, 0)
    /\ UNCHANGED <<ret, drifted, decayed_brain, ncCallVars, now, cfg, score,
                   ctx, chat_input, bot, steps, chat_history>>

\* the "Clear chat" button
ClearChatButton ==
    /\ chat_history' = <<>>
    /\ stm' = <<>>
    /\ ltm' = <<>>
    /\ reflections' = <<>>
    /\ attachment' = InitialAttachment
    /\ call' = Call("clear_chat", <<>>, 0)
    /\ UNCHANGED <<decay, state, history, ret, neuroVars, ncCallVars, now, cfg,
                   score, ctx, chat_input, bot, steps>>

InitTurn ==
    /\ MoodIdle
    /\ NeuroIdle
    /\ NCCallIdle
    /\ MemIdle
    /\ TurnIdle

NextTurn ==
    \/ \E a \in SubmitInputs, outcome \in LlmOutcomes :
          Submit(a[1], a[2], outcome)
    \/ ResetMoodButton
    \/ ClearChatButton

SpecTurn == InitTurn /\ [][NextTurn]_vars

----------------------------------------------------------------------------
(* Properties *)

Clip(x) == IF x < -One THEN -One ELSE IF x > One THEN One ELSE x

Components == {"pleasure", "arousal", "dominance"}

Modulators == {"dopamine", "serotonin", "noradrenaline"}

PadInRange(p) == \A c \in Components : -One <= p[c] /\ p[c] <= One

NCInRange(nc) == \A m \in Modulators : -One <= nc[m] /\ nc[m] <= One

Last(seq) == seq[Len(seq)]

\* the five updates of tests/test_mood.py have just been made
MoodTestRun ==
    /\ decay = 800
    /\ Len(history) = 6
    /\ history[1] = PADZero
    /\ \A i \in 1..5 :
          /\ history[i + 1].pleasure =
                Clip(Mul(800, history[i].pleasure) + Mul(250, 800))
          /\ history[i + 1].arousal = 0
          /\ history[i + 1].dominance = 0
    /\ call = Call("update", Some(TestDelta), DefaultBlend)

\* C1: every Mood.update(delta, blend) step sets each component of the mood
\* to clip(decay * old + blend * delta), appends exactly that state to
\* history and returns it; and the test's five updates of Mood(decay=0.8)
\* with delta (0.8, 0, 0), blend 0.25 end with pleasure > 0.2.
C1_MoodUpdate ==
    /\ [][ call'.op = "update" =>
            /\ \A c \in Components :
                  state'[c] = Clip(Mul(decay, state[c])
                                   + Mul(call'.fac, call'.arg[1][c]))
            /\ Len(history') = Len(history) + 1
            /\ SubSeq(history', 1, Len(history)) = history
            /\ Last(history') = state'
            /\ ret' = <<state'>> ]_vars
    /\ [](MoodTestRun => state = Last(history) /\ 5 * state.pleasure > One)

\* C1 witness: the test's run has been made and ended at pleasure 0.672
C1_Witness == MoodTestRun /\ state.pleasure = 672

\* C2: every PAD value produced by any operation (the mood's state, every
\* entry of its history, every returned PAD) has its components in [-1, 1].
C2_AllPadInRange ==
    /\ PadInRange(state)
    /\ \A i \in 1..Len(history) : PadInRange(history[i])
    /\ ret # None => PadInRange(ret[1])

\* C3: after any sequence of turns from the neutral neuro-state, the stored
\* neuro-state, every entry of its history and the turn's intermediate
\* values (drifted, decayed) have all three components in [-1, 1].
C3_NeuroInRange ==
    /\ NCInRange(brain)
    /\ \A i \in 1..Len(brain_history) : NCInRange(brain_history[i])
    /\ NCInRange(drifted)
    /\ NCInRange(decayed_brain)

\* C3 witness: a turn has pushed dopamine to the upper edge, where the
\* unclipped update lies above it
C3_Witness ==
    /\ Len(brain_history) > 1
    /\ brain.dopamine = One
    /\ \E l \in TurnLabels :
          NCShifted(decayed_brain, EmotionToPad(l),
                    DefaultLearningRate).dopamine > One

\* a Mood.update(PAD.zero(), blend=0) step
ZeroUpdateStep == call' = Call("update", Some(PADZero), 0)

\* C4 as claimed: under a zero update every non-zero component strictly
\* shrinks in magnitude and does not become zero; a zero one stays zero.
C4_StrictDecay ==
    [][ ZeroUpdateStep =>
          \A c \in Components :
              /\ state[c] # 0 =>
                    Abs(state'[c]) < Abs(state[c]) /\ state'[c] # 0
              /\ state[c] = 0 => state'[c] = 0 ]_vars

\* C4 amended: under a zero update no component grows in magnitude or
\* changes sign, a zero one stays zero, and a component shrinks strictly
\* whenever the exact product decay * x lies more than half a grid step
\* below x.
C4_WeakDecay ==
    [][ ZeroUpdateStep =>
          \A c \in Components :
              /\ Abs(state'[c]) <= Abs(state[c])
              /\ state[c] >= 0 => state'[c] >= 0
              /\ state[c] <= 0 => state'[c] <= 0
              /\ 2 * Abs(state[c]) * (One - decay) > Scale =>
                    Abs(state'[c]) < Abs(state[c]) ]_vars

\* C4 witness: a zero update has left a non-zero component where it was
\* (pleasure) or has taken one to exactly zero (arousal)
C4_Witness ==
    /\ call = Call("update", Some(PADZero), 0)
    /\ Len(history) >= 2
    /\ \/ state.pleasure # 0 /\ history[Len(history) - 1].pleasure = state.pleasure
       \/ state.arousal = 0 /\ history[Len(history) - 1].arousal # 0

\* the result the claim gives for updated_from_pad_delta
C5_Expected(self, delta, rate) ==
    LET d == self.dopamine
             + (IF delta.pleasure >= 0 THEN Mul(rate, delta.pleasure) ELSE 0)
             + Mul(Mul(100, rate), delta.dominance)
        s == self.serotonin
             + (IF delta.pleasure >= 0
                THEN Mul(Mul(500, rate), delta.pleasure) ELSE 0)
        n == self.noradrenaline
             + (IF delta.pleasure >= 0
                THEN 0 ELSE Mul(Mul(400, rate), Abs(delta.pleasure)))
             + (IF delta.arousal > 0
                THEN Mul(Mul(600, rate), delta.arousal) ELSE 0)
    IN  NeuroChemistry(Clip(d), Clip(s), Clip(n))

\* C5: every updated_from_pad_delta(delta, rate) step returns the clipped
\* result of the claimed rule and leaves the receiver as it was.
C5_UpdatedFromPadDelta ==
    [][ call'.op = "updated_from_pad_delta" =>
          /\ nc_ret' = C5_Expected(nc_self, call'.arg[1], call'.fac)
          /\ nc_self' = nc_self ]_vars

\* C5 witness: a call with negative pleasure and negative arousal has
\* returned: noradrenaline rose by 0.4 * rate * |pleasure| only
C5_Witness ==
    /\ call = Call("updated_from_pad_delta", Some(PAD(-800, -400, 400)),
                   DefaultLearningRate)
    /\ nc_self = NCNeutral
    /\ nc_ret = NeuroChemistry(16, 0, 128)

\* C6: score_importance(text, label) is in [0, 1] for every text and label
\* and is exactly 0.95 when the label is "safety", whatever the text contains.
C6_ScoreImportance ==
    call.op = "score_importance" =>
        /\ 0 <= score /\ score <= One
        /\ call.arg[2] = "safety" => score = 950

\* a safety-labelled text that carries self, preference and plan markers has
\* been scored 0.95
C6_Witness ==
    /\ call = Call("score_importance", <<"My goal: I prefer to plan", "safety">>, 0)
    /\ score = 950

\* C7: after any sequence of update_memories calls from an empty short-term
\* list, the list holds at most max_stm records, for every cap max_stm >= 0.
C7_StmWithinCap == Len(stm) <= cfg.max_stm

Range(seq) == {seq[i] : i \in DOMAIN seq}

\* C8: after any sequence of update_memories calls from an empty long-term
\* list, the list holds at most max_ltm records, each of importance >=
\* ltm_threshold, and a turn of importance below the threshold adds none.
C8_LtmCapAndThreshold ==
    /\ [](/\ Len(ltm) <= cfg.max_ltm
          /\ \A r \in Range(ltm) : r.importance >= cfg.ltm_threshold)
    /\ [][(call'.op = "update_memories" /\ score' < cfg.ltm_threshold)
             => ltm' = ltm]_vars

\* a turn below the threshold has just been processed with the long-term
\* list at its cap of two, and left no record there
C8_Witness ==
    /\ call.op = "update_memories"
    /\ score < cfg.ltm_threshold
    /\ cfg.max_ltm = 2
    /\ Len(ltm) = 2
    /\ \A r \in Range(ltm) : r.timestamp # now

MinImportance(l) ==
    CHOOSE m \in {r.importance : r \in Range(l)} :
        \A r \in Range(l) : m <= r.importance

\* C9: when the long-term list holds exactly max_ltm records and
\* update_memories inserts an eligible record, one record of the lowest
\* importance is evicted and the new record kept if the new importance is
\* strictly greater than that lowest importance; otherwise the list is
\* unchanged and the new record is not retained.
C9_EvictLowest ==
    [][(/\ call'.op = "update_memories"
        /\ Len(ltm) = cfg.max_ltm
        /\ score' >= cfg.ltm_threshold)
       => IF ltm # <<>> /\ score' > MinImportance(ltm)
          THEN /\ Len(ltm') = Len(ltm)
               /\ \E old \in Range(ltm), new \in Range(ltm') :
                     /\ old.importance = MinImportance(ltm)
                     /\ new.timestamp = now'
                     /\ new.importance = score'
                     /\ Range(ltm') = (Range(ltm) \ {old}) \cup {new}
          ELSE ltm' = ltm]_vars

\* with caps of two, turn 1 is in long-term memory, turn 2 was eligible and
\* is gone from it, and turn 3 has taken its place
C9_Witness ==
    /\ call.op = "update_memories"
    /\ cfg.max_ltm = 2 /\ cfg.max_stm = 2
    /\ now = 3
    /\ Len(stm) = 2
    /\ stm[1].timestamp = 2 /\ stm[1].importance >= cfg.ltm_threshold
    /\ {r.timestamp : r \in Range(ltm)} = {1, 3}

\* the positions of the line breaks of a string
Breaks(s) == {i \in 1..Len(s) : CharAt(s, i) = "\n"}

\* the j-th smallest member of a set of positions
Nth(b, j) == CHOOSE i \in b : Cardinality({k \in b : k < i}) = j - 1

\* s.split(chr(10))
Lines(s) ==
    LET b == Breaks(s)
        n == Cardinality(b)
        at == [j \in 1..n |-> Nth(b, j)]
    IN  [j \in 1..(n + 1) |->
            SubSeq(s, IF j = 1 THEN 1 ELSE at[j - 1] + 1,
                      IF j = n + 1 THEN Len(s) ELSE at[j] - 1)]

IsEntry(line) == Len(line) >= 2 /\ SubSeq(line, 1, 2) = "- "

\* C10: build_memory_context emits all long-term entries before any
\* short-term entry, the long-term entries in descending timestamp order and
\* the short-term entries in their original order; it returns the empty
\* string exactly when both lists are empty.
C10_ContextOrder ==
    call.op = "build_memory_context" =>
        /\ (ctx = "") <=> (stm = <<>> /\ ltm = <<>>)
        /\ LET e == SelectSeq(Lines(ctx), IsEntry)
           IN  \E nl \in 0..Len(ltm), ns \in 0..Len(stm) :
                  /\ Len(e) = nl + ns
                  /\ \E f \in [1..nl -> 1..Len(ltm)] :
                        /\ \A i \in 1..nl : e[i] = "- " \o ltm[f[i]].text
                        /\ \A i \in 1..(nl - 1) :
                              ltm[f[i]].timestamp > ltm[f[i + 1]].timestamp
                  /\ \E g \in [1..ns -> 1..Len(stm)] :
                        /\ \A j \in 1..ns :
                              e[nl + j] = "- " \o Flattened(stm[g[j]].text)
                        /\ \A j \in 1..(ns - 1) : g[j] < g[j + 1]

\* a context has been built from two short-term records and two long-term
\* records of different texts that are stored oldest first
C10_Witness ==
    /\ call = Call("build_memory_context", <<4, 6>>, 0)
    /\ Len(stm) = 2
    /\ Len(ltm) = 2
    /\ ltm[1].timestamp < ltm[2].timestamp
    /\ ltm[1].text # ltm[2].text
    /\ ctx # ""

Clip01(x) == IF x < 0 THEN 0 ELSE IF x > One THEN One ELSE x

\* C11: starting from any value in [0, 1], after any number of
\* update_attachment calls with any labels, targets and signals the
\* attachment stays within [0, 1].
C11_AttachmentInRange == 0 <= attachment /\ attachment <= One

\* a joy call from 0.97 has been clipped at 1, or an anger-at-bot call from
\* 0.01 has been clipped at 0
C11_Witness ==
    /\ call.op = "update_attachment"
    /\ \/ /\ call.arg[1] = 970 /\ call.arg[2] = "joy"
          /\ call.arg[3] = "self" /\ call.arg[4] = [compound |-> 210]
          /\ attachment = One
       \/ /\ call.arg[1] = 10 /\ call.arg[2] = "anger"
          /\ call.arg[3] = "bot" /\ attachment = 0

\* the delta the claim gives for a label, a target and a compound score
C12_Delta(label, target, comp) ==
    (IF label \in {"gratitude", "joy"} /\ target # "bot" /\ comp > 200
     THEN 40 ELSE 0)
    + (IF label \in {"sadness", "fear"} /\ target = "self" THEN 20 ELSE 0)
    + (IF label = "anger" /\ target = "bot" THEN -50 ELSE 0)
    + (IF label = "safety" THEN 10 ELSE 0)

\* C12: update_attachment returns current + d clipped to [0, 1], d being the
\* sum of the deltas of the matching rules (+0.04 gratitude/joy not at the
\* bot with compound > 0.2, +0.02 sadness/fear about self, -0.05 anger at
\* the bot, +0.01 safety); anger at the bot gives d = -0.05.
C12_UpdateAttachment ==
    call.op = "update_attachment" =>
        LET d == C12_Delta(call.arg[2], call.arg[3], Compound(call.arg[4]))
        IN  /\ attachment = Clip01(call.arg[1] + d)
            /\ (call.arg[2] = "anger" /\ call.arg[3] = "bot") => d = -50

\* an anger-at-bot call has lowered 0.3 to 0.25
C12_Witness ==
    /\ call.op = "update_attachment"
    /\ call.arg[1] = InitialAttachment
    /\ call.arg[2] = "anger" /\ call.arg[3] = "bot"
    /\ attachment = InitialAttachment - 50

\* the result of the last analyze call
Analyzed == ret[1]

\* C16: for a text matched by a keyword rule, analyze returns the label of
\* the first matching rule in RULES order, delta = EMOTION_TO_PAD[label] and
\* signals with a compound score and a target; the anger text of the tests
\* gets anger or sadness with a negative pleasure delta, a thanks /
\* appreciate text gratitude or joy with a positive one.
C16_KeywordRules ==
    call.op = "analyze" =>
        LET text == call.arg[1]
            t == Lookup(StrippedTable, text)
            m == {i \in 1..Len(RULES) : RuleMatches(RULES[i], t)}
        IN  /\ m # {} =>
                /\ \E i \in m : /\ \A k \in m : i <= k
                                 /\ Analyzed[1] = RULES[i].label
                /\ Analyzed[2] = EmotionToPad(Analyzed[1])
                /\ {"compound", "target"} \subseteq DOMAIN Analyzed[3]
                /\ Analyzed[3].compound = call.arg[2]
            /\ text = " so sad and angry " => Analyzed[1] = "anger"
            /\ text = "I feel so angry about this!" =>
                /\ Analyzed[1] \in {"anger", "sadness"}
                /\ Analyzed[2].pleasure < 0
            /\ text \in {"Thanks, I really appreciate your help.",
                          "Thanks but I am furious"} =>
                /\ Analyzed[1] \in {"gratitude", "joy"}
                /\ Analyzed[2].pleasure > 0

\* a text with a gratitude and an anger keyword has been labelled gratitude
\* although VADER scored it negative
C16_Witness ==
    /\ call = Call("analyze", <<"Thanks but I am furious", -500>>, 0)
    /\ Analyzed[1] = "gratitude"
    /\ Analyzed[2] = PAD(600, 100, 200)

\* the text, compound score and generation outcome of the last submission
Submitted == call.op = "submit"

SubmittedText == call.arg[1]

HasStep(op) == \E i \in 1..Len(steps) : steps[i].op = op

\* the position and the argument of the handler's call of op in the last turn
StepIndex(op) == CHOOSE i \in 1..Len(steps) : steps[i].op = op

StepArg(op) == steps[StepIndex(op)].arg

CrisisTurn == Submitted /\ Lookup(CrisisTable, SubmittedText) # None

\* C13: on a turn whose text matches the crisis check the generation backend
\* is not invoked and the reply is the fixed crisis message, while the mood,
\* neuro-state, memory and attachment updates still run, the memory update
\* and the attachment update both with the forced label "safety".
C13_CrisisTurn ==
    CrisisTurn =>
        /\ ~HasStep("render_response") /\ ~HasStep("chat_llm")
        /\ bot = CrisisMessage
        /\ HasStep("mood.update") /\ HasStep("updated_from_pad_delta")
        /\ HasStep("update_memories") /\ HasStep("update_attachment")
        /\ StepArg("update_memories")[2] = "safety"
        /\ StepArg("update_attachment")[1] = "safety"

\* C14: when the generation call fails, the reply is a marked fallback
\* string with the error detail, and the turn completes its mood,
\* neuro-state, attachment and memory updates as on a successful turn, the
\* fallback reply being what the short-term record stores.
C14_FallbackTurn ==
    [][(/\ call'.op = "submit"
        /\ Lookup(StrippedTable, call'.arg[1]) # ""
        /\ Lookup(CrisisTable, call'.arg[1]) = None
        /\ ~call'.arg[3].ok)
       => LET text == call'.arg[1]
              analysis == Analyze(text, call'.arg[2])
          IN  /\ bot' = "(Fallback) I'm having trouble reaching the local model: "
                        \o call'.arg[3].error
              /\ state' = MoodBlend(state, decay, analysis[2], DefaultBlend)
              /\ history' = Append(history, state')
              /\ brain' = NCUpdatedFromPadDelta(
                              NCDecayed(Drift(brain, CalmTherapist), TurnDecay),
                              analysis[2], DefaultLearningRate)
              /\ brain_history' = Append(brain_history, brain')
              /\ attachment' = UpdateAttachment(attachment, analysis[1],
                                                analysis[3].target, analysis[3])
              /\ Len(stm') = Len(stm) + 1
              /\ Last(stm').text = "User: " \o text \o "\nBot: " \o bot'
              /\ Last(stm').label = analysis[1]
              /\ ltm' = NewLtm(ltm, [Last(stm') EXCEPT
                                        !.kind = "ltm",
                                        !.text = Summary(text, analysis[1])],
                               cfg.max_ltm, cfg.ltm_threshold)]_vars

\* a turn whose generation call failed has stored the fallback reply in the
\* short-term record and an anger record in long-term memory
C14_Witness ==
    /\ Submitted
    /\ SubmittedText = "I feel so angry about this!"
    /\ ~call.arg[3].ok
    /\ bot = FallbackPrefix \o "Connection refused"
    /\ Last(stm).text = StmText(SubmittedText, bot)
    /\ ltm # <<>>
    /\ Last(history).pleasure < 0

\* C15: for an empty or whitespace-only text the classifier returns neutral,
\* a zero delta and default signals, and the turn's memory update and
\* attachment update proceed (a short-term record is appended for it).
C15_BlankTurn ==
    [][(call'.op = "submit" /\ Lookup(StrippedTable, call'.arg[1]) = "")
       => /\ Analyze(call'.arg[1], call'.arg[2])
                = <<"neutral", PADZero,
                    [compound |-> 0, target |-> "other_or_mixed"]>>
          /\ Len(stm') = Len(stm) + 1
          /\ Last(stm').label = "neutral"
          /\ \E i \in 1..Len(steps') : steps'[i].op = "update_attachment"]_vars

\* the order of the steps of a turn that C17 states
ClaimedOrder ==
    <<"analyze", "mood.update", "updated_from_pad_delta", "style_from_pad",
      "build_memory_context", "render_response", "update_memories",
      "update_attachment", "generate_reflection">>

\* C17: within every processed turn the steps occur in the order classify,
\* mood update, neuro-state update, style derivation, memory read,
\* generation call, memory write, attachment update, reflection.
C17_StepOrder ==
    (Submitted /\ steps # <<>>) =>
        \A i \in 1..Len(ClaimedOrder), j \in 1..Len(ClaimedOrder) :
            (i < j /\ HasStep(ClaimedOrder[i]) /\ HasStep(ClaimedOrder[j]))
                => StepIndex(ClaimedOrder[i]) < StepIndex(ClaimedOrder[j])

\* 0.9 * b + 0.1 * baseline, component by component
Interpolated(b, baseline) ==
    NeuroChemistry(Mul(b.dopamine, 900) + Mul(baseline.dopamine, 100),
                   Mul(b.serotonin, 900) + Mul(baseline.serotonin, 100),
                   Mul(b.noradrenaline, 900) + Mul(baseline.noradrenaline, 100))

\* C18: in every turn the neuro-state is recomputed as: interpolation of the
\* stored state toward the persona baseline (0.9 * state + 0.1 * baseline),
\* then decayed(0.9), then updated_from_pad_delta with the turn's delta; the
\* result replaces the stored state and is appended to the neuro history.
C18_NeuroOrder ==
    [][Len(brain_history') = Len(brain_history) + 1
       => \E nb \in NeuroBiases, l \in TurnLabels :
            /\ drifted' = Interpolated(brain, nb)
            /\ decayed_brain' = NCDecayed(Interpolated(brain, nb), 900)
            /\ brain' = NCUpdatedFromPadDelta(
                            NCDecayed(Interpolated(brain, nb), 900),
                            EmotionToPad(l), DefaultLearningRate)
            /\ brain_history' = Append(brain_history, brain')]_vars

\* after three turns, the last of them with a drift, a decay and an update
\* that each changed the value
C18_Witness ==
    /\ Len(brain_history) >= 4
    /\ brain = Last(brain_history)
    /\ \E nb \in NeuroBiases :
          /\ drifted = Interpolated(brain_history[Len(brain_history) - 1], nb)
          /\ drifted # brain_history[Len(brain_history) - 1]
    /\ decayed_brain # drifted
    /\ brain # decayed_brain

\* C19: every update_memories call (max_stm >= 1), whatever the turn's
\* importance, appends one full-exchange record of the current turn as the
\* last short-term element and drops the oldest records beyond the cap: the
\* returned list is the most recent max_stm turns in chronological order.
C19_StmFifo ==
    [][(call'.op = "update_memories" /\ now' = now + 1 /\ cfg.max_stm >= 1)
       => LET n == Len(stm')
              kept == n - 1
          IN  /\ n = IF Len(stm) + 1 > cfg.max_stm
                     THEN cfg.max_stm ELSE Len(stm) + 1
              /\ stm'[n].kind = "stm"
              /\ stm'[n].timestamp = now'
              /\ stm'[n].label = call'.arg[2]
              /\ stm'[n].text = "User: " \o call'.arg[1] \o "\nBot: " \o BotText
              /\ \A i \in 1..kept : stm'[i] = stm[Len(stm) - kept + i]
              /\ \A i \in 1..n : stm'[i].timestamp = now' - n + i]_vars

\* a full short-term list of two low-importance turns after a third turn:
\* the first turn was dropped and nothing reached long-term memory
C19_Witness ==
    /\ call.op = "update_memories"
    /\ cfg.max_stm = 2
    /\ now = 3
    /\ Len(stm) = 2
    /\ stm[1].timestamp = 2 /\ stm[2].timestamp = 3
    /\ \A i \in 1..2 : stm[i].importance < cfg.ltm_threshold
    /\ ltm = <<>>

\* the records of a long-term list as <<timestamp, importance>> pairs
Stamps(l) == { <<l[i].timestamp, l[i].importance>> : i \in 1..Len(l) }

\* C20: after any sequence of update_memories calls from an empty long-term
\* list, the list is in descending importance with records of equal
\* importance in insertion order, and a capacity eviction removes, among the
\* records tied at the lowest importance, the most recently inserted one.
C20_StableTies ==
    [][call'.op = "update_memories" /\ now' = now + 1
       => /\ \A i \in 1..Len(ltm'), j \in 1..Len(ltm') :
                i < j => \/ ltm'[i].importance > ltm'[j].importance
                         \/ /\ ltm'[i].importance = ltm'[j].importance
                            /\ ltm'[i].timestamp < ltm'[j].timestamp
          /\ (Len(ltm) = cfg.max_ltm /\ score' >= cfg.ltm_threshold)
                => LET removed == (Stamps(ltm) \cup {<<now', score'>>})
                                        \ Stamps(ltm')
                   IN  /\ Cardinality(removed) = 1
                       /\ \A r \in removed, x \in Stamps(ltm') :
                             \/ x[2] > r[2]
                             \/ x[2] = r[2] /\ x[1] < r[1]]_vars

\* two records tied at 0.6 filled a long-term list of two; a third turn of
\* 0.7 came in and the second of the tied records was the one removed
C20_Witness ==
    /\ call.op = "update_memories"
    /\ cfg.max_ltm = 2 /\ cfg.max_stm = 2 /\ cfg.ltm_threshold = 600
    /\ now = 3
    /\ Len(ltm) = 2
    /\ ltm[1].timestamp = 3 /\ ltm[1].importance = 700
    /\ ltm[2].timestamp = 1 /\ ltm[2].importance = 600
    /\ stm[1].timestamp = 2 /\ stm[1].importance = 600

\* the record of l with the i-th latest timestamp
NthLatest(l, i) ==
    CHOOSE r \in Range(l) :
        Cardinality({x \in Range(l) : x.timestamp > r.timestamp}) = i - 1

\* the entry lines of a context before and after its short-term header
LtmEntries(text) ==
    LET lines == Lines(text)
        before == {i \in 1..Len(lines) :
                      \A k \in 1..i : lines[k] # StmHeader}
    IN  SelectSeq([i \in 1..Len(lines) |->
                      IF i \in before THEN lines[i] ELSE ""], IsEntry)

StmEntries(text) ==
    LET lines == Lines(text)
        after == {i \in 1..Len(lines) :
                     \E k \in 1..i : lines[k] = StmHeader}
    IN  SelectSeq([i \in 1..Len(lines) |->
                      IF i \in after THEN lines[i] ELSE ""], IsEntry)

\* C21: for every max_ltm >= 0 and max_stm >= 0, build_memory_context emits
\* exactly min(len(ltm), max_ltm) long-term entries, the max_ltm most recent
\* by timestamp, and exactly min(len(stm), max_stm) short-term entries, the
\* last max_stm records of the short-term list.
C21_ContextCaps ==
    call.op = "build_memory_context" =>
        LET max_stm == call.arg[1]
            max_ltm == call.arg[2]
            nl == Min(Len(ltm), max_ltm)
            ns == Min(Len(stm), max_stm)
            le == LtmEntries(ctx)
            se == StmEntries(ctx)
        IN  /\ Len(le) = nl
            /\ \A i \in 1..nl : le[i] = "- " \o NthLatest(ltm, i).text
            /\ Len(se) = ns
            /\ \A j \in 1..ns :
                  se[j] = "- " \o Flattened(stm[Len(stm) - ns + j].text)

IsSafety(r) == r.label = "safety"

\* C22: with max_ltm >= 1, a record labelled "safety" that long-term memory
\* holds is kept by every later update_memories call (a turn of another
\* label scores at most 0.9, a safety turn 0.95), and once long-term memory
\* holds max_ltm safety records no later turn changes it.
C22_SafetyKept ==
    [][(call'.op = "update_memories" /\ now' = now + 1 /\ cfg.max_ltm >= 1)
       => /\ call'.arg[2] = "safety" => score' = 950
          /\ call'.arg[2] # "safety" => score' <= 900
          /\ \A e \in ImportanceTable :
                IF e[1][2] = "safety" THEN e[2] = 950 ELSE e[2] <= 900
          /\ \A i \in 1..Len(ltm) :
                IsSafety(ltm[i]) => \E j \in 1..Len(ltm') : ltm'[j] = ltm[i]
          /\ (Len(ltm) = cfg.max_ltm /\ \A i \in 1..Len(ltm) : IsSafety(ltm[i]))
                => ltm' = ltm]_vars

\* long-term memory of two holds the safety records of turns 1 and 2, and a
\* third turn of importance 0.9 was not stored
C22_Witness ==
    /\ call.op = "update_memories"
    /\ call.arg[2] = "sadness"
    /\ score = 900
    /\ cfg.max_ltm = 2 /\ cfg.ltm_threshold <= 900
    /\ now = 3
    /\ Len(ltm) = 2
    /\ IsSafety(ltm[1]) /\ ltm[1].timestamp = 1 /\ ltm[1].importance = 950
    /\ IsSafety(ltm[2]) /\ ltm[2].timestamp = 2

====
